---- MODULE Spec2Model ----
(***************************************************************************)
(* Life RPG backend (src/main.py): one user's profile row, the             *)
(* completed_tasks, history and shop_purchases tables, and the request     *)
(* handlers that read-modify-write them under a row lock.                  *)
(*                                                                         *)
(* Time is an integer number of minutes since 00:00 UTC of day 0; a date   *)
(* is a day number (the server's date.today() is taken in UTC) and the     *)
(* calendar month of a date is its day number divided by MonthLen.         *)
(* Authentication, rate limiting and HTTP transport are outside the model: *)
(* every request modelled here carries a valid identity of the one user.   *)
(***************************************************************************)
EXTENDS Integers, Sequences, FiniteSets, TLC

VARIABLES
    now,            \* wall clock, minutes
    user,           \* the user_profiles row of the user, or NoUser
    completed_rows, \* the user's rows of table completed_tasks
    history,        \* the user's rows of table history, in insertion order
    purchases,      \* the user's rows of table shop_purchases, in insertion order
    req,            \* per worker: the request it is handling
    lock,           \* the worker holding the row lock (SELECT ... FOR UPDATE), or 0
    resp,           \* the last response sent
    nreq,           \* requests received
    ndone           \* responses sent

vars == <<now, user, completed_rows, history, purchases, req, lock, resp, nreq, ndone>>
db == <<user, completed_rows, history, purchases>>

\* ---------------------------------------------------------------- bounds
MaxDay == 3
LongGap == 8
MonthLen == 2
MaxReq == 4
MaxConcDay == 1

\* ------------------------------------------------------- program constants
DefaultHp == 100
DefaultWaterGoal == 8
DefaultWeight == 70
MaxHp == 100
LowHp == 30
PenaltyPerDay == 15
WaterXp == 5
WaterHp == 5
MaxHabits == 20
FirstRequired == 100

NoUser == [none |-> TRUE]
None == -1
Workers == {1, 2}

TASKS == [workout_hard |-> 50, gratitude |-> 10]
REWARDS == [coffee |-> 50, game_hour |-> 75]

DateOf(t) == t \div (24 * 60)
HourOf(t) == (t % (24 * 60)) \div 60
MonthOf(d) == d \div MonthLen

Max(a, b) == IF a >= b THEN a ELSE b
Min(a, b) == IF a <= b THEN a ELSE b

\* ------------------------------------------------------------- game logic

\* int(required * 1.15) in double arithmetic: 100 * 1.15 is 114.99999999999999,
\* every later value on the chain 114, 131, 150, 172, 197, 226, ... is the
\* exact floor.
NextRequired(required) ==
    IF required = 100 THEN 114 ELSE (required * 115) \div 100

RECURSIVE LevelLoop(_, _, _)
LevelLoop(xp, level, required) ==
    IF xp >= required
    THEN LevelLoop(xp - required, level + 1, NextRequired(required))
    ELSE level

xp_to_level(xp) == LevelLoop(xp, 1, FirstRequired)

\* Mutant: the low-hp halving is never applied.
LowHpPenalty_never(u) == FALSE

LowHpPenalty(u) == u.hp < LowHp

\* Mutant: the level is not recomputed after the award.
apply_xp_gain_stale_level(u, xp_gain) ==
    LET g1 == IF LowHpPenalty(u) THEN xp_gain \div 2 ELSE xp_gain
        g == IF g1 < 0 THEN 0 ELSE g1
    IN [user |-> [u EXCEPT !.xp = @ + g, !.current_month_xp = @ + g], actual |-> g]

\* Mutant: the award is not added to the month's xp.
apply_xp_gain_total_only(u, xp_gain) ==
    LET g1 == IF LowHpPenalty(u) THEN xp_gain \div 2 ELSE xp_gain
        g == IF g1 < 0 THEN 0 ELSE g1
        u1 == [u EXCEPT !.xp = @ + g]
    IN [user |-> [u1 EXCEPT !.level = xp_to_level(u1.xp)], actual |-> g]

apply_xp_gain(u, xp_gain) ==
    LET g1 == IF LowHpPenalty(u) THEN xp_gain \div 2 ELSE xp_gain
        g == IF g1 < 0 THEN 0 ELSE g1
        u1 == [u EXCEPT !.xp = @ + g, !.current_month_xp = @ + g]
    IN [user |-> [u1 EXCEPT !.level = xp_to_level(u1.xp)], actual |-> g]

clamp_hp(u) == [u EXCEPT !.hp = Max(0, Min(MaxHp, @))]

HistoryRow(event_type, ref, info, xp_delta, hp_delta, ts) ==
    [event_type |-> event_type, ref |-> ref, info |-> info,
     xp_delta |-> xp_delta, hp_delta |-> hp_delta, timestamp |-> ts]

\* Mutant: the penalty is subtracted without the floor at 0.
PenaltyHp_unfloored(hp, penalty) == hp - penalty

PenaltyHp(hp, penalty) == Max(0, hp - penalty)

MonthlyReset(u, today) ==
    IF u.last_month_reset = None \/ MonthOf(today) # MonthOf(u.last_month_reset)
    THEN [u EXCEPT !.current_month_xp = 0, !.last_month_reset = today]
    ELSE u

\* Mutant: the daily reset does not record the day it ran on.
DailyMarker_stale(u, today) == u

\* The end of the daily reset: the day is recorded.
DailyMarker(u, today) == [u EXCEPT !.last_seen_date = today]

\* Mutant: the day after the last visit is penalised like any other gap.
ConsecutiveDay_never(days_missed) == FALSE

\* The visit on the day after the last one: the streak goes on, no penalty.
ConsecutiveDay(days_missed) == days_missed = 1

\* Mutant: a gap leaves no streak at all.
StreakAfter_zero(streak, days_missed) ==
    IF ConsecutiveDay(days_missed) THEN streak + 1 ELSE 0

\* The streak after a visit on a later day.
StreakAfter(streak, days_missed) ==
    IF ConsecutiveDay(days_missed) THEN streak + 1 ELSE 1

\* The row after process_daily_updates and the history rows it adds.
process_daily_updates(u0, today, ts) ==
    LET u == MonthlyReset(u0, today)
    IN  IF u.last_seen_date = None
        THEN [user |-> [u EXCEPT !.last_seen_date = today, !.streak = 1], hist |-> <<>>]
        ELSE IF u.last_seen_date < today
        THEN LET days_missed == today - u.last_seen_date
                 penalty == days_missed * PenaltyPerDay
                 u1 == IF ConsecutiveDay(days_missed)
                       THEN [u EXCEPT !.streak = StreakAfter(@, days_missed)]
                       ELSE [u EXCEPT !.hp = PenaltyHp(@, penalty),
                                      !.streak = StreakAfter(@, days_missed)]
                 h == IF ConsecutiveDay(days_missed)
                      THEN <<>>
                      ELSE <<HistoryRow("penalty", "", days_missed, 0, 0 - penalty, ts)>>
             IN [user |-> [DailyMarker(u1, today) EXCEPT !.water_count = 0,
                                                         !.completed_tasks = <<>>],
                 hist |-> h]
        ELSE [user |-> u, hist |-> <<>>]

\* Mutant: the new row starts without its hp.
NewUser_nohp ==
    [hp |-> 0, xp |-> 0, level |-> 1, current_month_xp |-> 0,
     water_count |-> 0, water_goal |-> DefaultWaterGoal,
     weight |-> DefaultWeight, activity_factor |-> 10,
     completed_tasks |-> <<>>, sleep_start |-> None, streak |-> 0,
     last_seen_date |-> None, last_month_reset |-> None, custom_habits |-> <<>>]

NewUser ==
    [hp |-> DefaultHp, xp |-> 0, level |-> 1, current_month_xp |-> 0,
     water_count |-> 0, water_goal |-> DefaultWaterGoal,
     weight |-> DefaultWeight, activity_factor |-> 10,
     completed_tasks |-> <<>>, sleep_start |-> None, streak |-> 0,
     last_seen_date |-> None, last_month_reset |-> None, custom_habits |-> <<>>]

\* ---------------------------------------------------------------- outcomes

Response(r, status, xp_gained, hp_gained) ==
    [op |-> r.op, id |-> r.id, n |-> r.n, today0 |-> r.today0, wc0 |-> r.wc0,
     status |-> status,
     xp_gained |-> xp_gained, hp_gained |-> hp_gained]

\* A handler that raises: the session closes without commit, nothing persists.
Fail(r, status) ==
    [user |-> user, rows |-> completed_rows, hist |-> history, purch |-> purchases,
     resp |-> Response(r, status, 0, 0)]

Commit(r, u, rows, hist, purch, xp_gained, hp_gained) ==
    [user |-> u, rows |-> rows, hist |-> hist, purch |-> purch,
     resp |-> Response(r, 200, xp_gained, hp_gained)]

\* ----------------------------------------------------------------- routes

get_or_create_user(row) == IF row = NoUser THEN NewUser ELSE row

get_hero(r, row) ==
    IF row = NoUser /\ user # NoUser
    THEN Fail(r, 500)   \* the insert hits the unique index on telegram_id
    ELSE LET d == process_daily_updates(get_or_create_user(row), DateOf(now), now)
         IN Commit(r, d.user, completed_rows, history \o d.hist, purchases, 0, 0)

WaterHpGain(hp, hp_gain) == Min(MaxHp, hp + hp_gain)

\* Mutant: one glass is counted whatever the amount.
WaterCountAfter_one(water_count, amount) == water_count + 1

WaterCountAfter(water_count, amount) == water_count + amount

add_water(r, row) ==
    IF row = NoUser THEN Fail(r, 404)
    ELSE LET d == process_daily_updates(row, DateOf(now), now)
             a == apply_xp_gain(d.user, r.n * WaterXp)
             hp_gain == r.n * WaterHp
             u == [a.user EXCEPT !.hp = WaterHpGain(@, hp_gain),
                                 !.water_count = WaterCountAfter(@, r.n)]
         IN Commit(r, u, completed_rows,
                   history \o d.hist
                       \o <<HistoryRow("water", "", r.n, a.actual, hp_gain, now)>>,
                   purchases, a.actual, hp_gain)

\* Mutant: an open session is not detected.
AlreadySleeping_never(u) == FALSE

AlreadySleeping(u) == u.sleep_start # None

\* /api/sleep/start
sleep_start(r, row) ==
    IF row = NoUser THEN Fail(r, 404)
    ELSE IF AlreadySleeping(row) THEN Fail(r, 400)
    ELSE Commit(r, [row EXCEPT !.sleep_start = now], completed_rows, history,
                purchases, 0, 0)

\* Thresholds of sleep_end in minutes: 0.5 h, 3 h, 5 h, 7.5 h; the sleep phase
\* is 1.5 h and its windows end at 0.35 h and start at 1.15 h.
\* Mutant: no minimum duration.
TooShort_never(duration) == FALSE

TooShort(duration) == duration < 30

DurationXp(duration) ==
    IF duration < 180 THEN 10
    ELSE IF duration < 300 THEN 15
    ELSE IF duration < 450 THEN 30
    ELSE 50

DurationHp(duration) ==
    IF duration < 180 THEN 5
    ELSE IF duration < 300 THEN 10
    ELSE IF duration < 450 THEN 15
    ELSE 20

\* Mutant: going to bed after 2 o'clock costs 20 XP.
BedtimeXp_harsh(bedtime_hour) ==
    IF 21 <= bedtime_hour /\ bedtime_hour <= 23 THEN 30
    ELSE IF bedtime_hour \in {0, 1} THEN 10
    ELSE IF 2 <= bedtime_hour /\ bedtime_hour <= 5 THEN 0 - 20
    ELSE 0

BedtimeXp(bedtime_hour) ==
    IF 21 <= bedtime_hour /\ bedtime_hour <= 23 THEN 30
    ELSE IF bedtime_hour \in {0, 1} THEN 10
    ELSE IF 2 <= bedtime_hour /\ bedtime_hour <= 5 THEN 0 - 10
    ELSE 0

\* Mutant: the wake phase earns nothing.
PhaseXp_never(duration) == 0

PhaseXp(duration) ==
    LET phase_remainder == duration % 90
    IN IF phase_remainder < 21 \/ phase_remainder > 69 THEN 20 ELSE 0

SleepXp(duration, bedtime_hour) ==
    IF TooShort(duration) THEN 0
    ELSE DurationXp(duration) + BedtimeXp(bedtime_hour) + PhaseXp(duration)

SleepHp(duration) == IF TooShort(duration) THEN 0 ELSE DurationHp(duration)

SleepCleared(u) == [u EXCEPT !.sleep_start = None]

\* /api/sleep/end; its clock is read before the row is locked (r.now0)
sleep_end(r, row) ==
    IF row = NoUser THEN Fail(r, 404)
    ELSE IF row.sleep_start = None THEN Fail(r, 400)
    ELSE LET duration == r.now0 - row.sleep_start
             xp_gain == SleepXp(duration, HourOf(row.sleep_start))
             hp_gain == SleepHp(duration)
             a == IF xp_gain > 0 THEN apply_xp_gain(row, xp_gain)
                  ELSE IF xp_gain < 0
                  THEN [user |-> [row EXCEPT !.current_month_xp = Max(0, @ + xp_gain)],
                        actual |-> 0]
                  ELSE [user |-> row, actual |-> 0]
             u1 == IF hp_gain > 0
                   THEN [a.user EXCEPT !.hp = Min(MaxHp, @ + hp_gain)]
                   ELSE a.user
             u == SleepCleared(clamp_hp(u1))
         IN Commit(r, u, completed_rows,
                   Append(history,
                          HistoryRow("sleep", "", duration, a.actual, hp_gain, r.now0)),
                   purchases, a.actual, hp_gain)

\* The first custom habit with this id, as the loop of complete_task finds it.
RECURSIVE FindHabit(_, _)
FindHabit(habits, id) ==
    IF habits = <<>> THEN None
    ELSE IF Head(habits).id = id THEN Head(habits).xp
    ELSE FindHabit(Tail(habits), id)

\* Mutant: an id that is neither in the catalog nor a habit is worth 0 XP.
TaskXp_zero(u, task_id) ==
    IF task_id \in DOMAIN TASKS THEN TASKS[task_id]
    ELSE Max(0, FindHabit(u.custom_habits, task_id))

TaskXp(u, task_id) ==
    IF task_id \in DOMAIN TASKS THEN TASKS[task_id]
    ELSE FindHabit(u.custom_habits, task_id)

InSeq(x, s) == \E i \in 1..Len(s) : s[i] = x

\* Mutant: the handler does not look for today's completion row.
AlreadyCompleted_never(rows, task_id, today) == FALSE

AlreadyCompleted(rows, task_id, today) ==
    \E c \in rows : c.task_id = task_id /\ c.completed_date = today

\* UniqueConstraint uq_task_per_day: a second row for the task and date
UniqueViolation(rows, ct) ==
    \E c \in rows : c.task_id = ct.task_id /\ c.completed_date = ct.completed_date

\* Mutant: a completion also heals 5 hp and records it.
AwardTask_heal(r, d, xp_value) ==
    LET a == apply_xp_gain(d.user, xp_value)
        ct == [task_id |-> r.id, completed_date |-> r.today0, xp_gained |-> a.actual]
        completed == IF InSeq(r.id, a.user.completed_tasks)
                     THEN a.user.completed_tasks
                     ELSE Append(a.user.completed_tasks, r.id)
        u == [a.user EXCEPT !.completed_tasks = completed, !.hp = Min(MaxHp, @ + 5)]
    IN IF UniqueViolation(completed_rows, ct) THEN Fail(r, 500)
       ELSE Commit(r, u, completed_rows \cup {ct},
                   history \o d.hist \o <<HistoryRow("task", r.id, 0, a.actual, 5, now)>>,
                   purchases, a.actual, 5)

\* The award, the completed_tasks row, the list of the profile and the history row
AwardTask(r, d, xp_value) ==
    LET a == apply_xp_gain(d.user, xp_value)
        ct == [task_id |-> r.id, completed_date |-> r.today0, xp_gained |-> a.actual]
        completed == IF InSeq(r.id, a.user.completed_tasks)
                     THEN a.user.completed_tasks
                     ELSE Append(a.user.completed_tasks, r.id)
        u == [a.user EXCEPT !.completed_tasks = completed]
    IN IF UniqueViolation(completed_rows, ct) THEN Fail(r, 500)
       ELSE Commit(r, u, completed_rows \cup {ct},
                   history \o d.hist \o <<HistoryRow("task", r.id, 0, a.actual, 0, now)>>,
                   purchases, a.actual, 0)

\* Mutant: a completion is neither looked up nor refused by the constraint.
complete_task_unchecked(r, row) ==
    IF row = NoUser THEN Fail(r, 404)
    ELSE LET d == process_daily_updates(row, DateOf(now), now)
             xp_value == TaskXp(d.user, r.id)
         IN IF xp_value = None THEN Fail(r, 404)
            ELSE LET a == apply_xp_gain(d.user, xp_value)
                 IN Commit(r, a.user,
                           completed_rows \cup {[task_id |-> r.id,
                                                  completed_date |-> r.today0,
                                                  xp_gained |-> a.actual]},
                           history \o d.hist
                               \o <<HistoryRow("task", r.id, 0, a.actual, 0, now)>>,
                           purchases, a.actual, 0)

\* /api/task/complete; its date is read before the row is locked (r.today0)
complete_task(r, row) ==
    IF row = NoUser THEN Fail(r, 404)
    ELSE LET d == process_daily_updates(row, DateOf(now), now)
             xp_value == TaskXp(d.user, r.id)
         IN IF xp_value = None THEN Fail(r, 404)
            ELSE IF AlreadyCompleted(completed_rows, r.id, r.today0) THEN Fail(r, 409)
            ELSE AwardTask(r, d, xp_value)

\* Mutant: the balance is not checked.
NotEnough_never(u, cost) == FALSE

NotEnough(u, cost) == u.current_month_xp < cost

\* Mutant: the cost is taken from the lifetime XP too.
ShopDebit_both(u, cost) == [u EXCEPT !.current_month_xp = @ - cost, !.xp = @ - cost]

ShopDebit(u, cost) == [u EXCEPT !.current_month_xp = @ - cost]

\* /api/shop/buy
shop_buy(r, row) ==
    IF r.id \notin DOMAIN REWARDS THEN Fail(r, 404)
    ELSE LET cost == REWARDS[r.id]
         IN IF cost <= 0 THEN Fail(r, 400)
            ELSE IF row = NoUser THEN Fail(r, 404)
            ELSE IF NotEnough(row, cost) THEN Fail(r, 400)
            ELSE Commit(r, ShopDebit(row, cost), completed_rows,
                        Append(history, HistoryRow("shop", r.id, 0, 0 - cost, 0, now)),
                        Append(purchases, [reward_id |-> r.id, purchased_at |-> now]),
                        0, 0)

\* int(weight * activity_factor / 250), the activity factor in tenths
WaterGoal(weight, activity10) == Max(1, (weight * activity10) \div 2500)

\* /api/bio/update
update_bio(r, row) ==
    IF row = NoUser THEN Fail(r, 404)
    ELSE Commit(r, [row EXCEPT !.weight = r.n, !.activity_factor = r.m,
                               !.water_goal = WaterGoal(r.n, r.m)],
                completed_rows, history, purchases, 0, 0)

\* /api/habit/add; r.id is the id uuid4 produced
add_habit(r, row) ==
    IF row = NoUser THEN Fail(r, 404)
    ELSE IF Len(row.custom_habits) >= MaxHabits THEN Fail(r, 400)
    ELSE Commit(r, [row EXCEPT !.custom_habits =
                        Append(@, [id |-> r.id, name |-> r.name, xp |-> r.n,
                                   category |-> "custom"])],
                completed_rows, history, purchases, 0, 0)

RECURSIVE EditFirst(_, _, _, _)
EditFirst(habits, id, name, xp) ==
    IF habits = <<>> THEN <<>>
    ELSE IF Head(habits).id = id
    THEN <<[Head(habits) EXCEPT !.name = name, !.xp = xp]>> \o Tail(habits)
    ELSE <<Head(habits)>> \o EditFirst(Tail(habits), id, name, xp)

\* /api/habit/edit
edit_habit(r, row) ==
    IF row = NoUser THEN Fail(r, 404)
    ELSE IF FindHabit(row.custom_habits, r.id) = None THEN Fail(r, 404)
    ELSE Commit(r, [row EXCEPT !.custom_habits = EditFirst(@, r.id, r.name, r.n)],
                completed_rows, history, purchases, 0, 0)

\* /api/habit/delete
delete_habit(r, row) ==
    IF row = NoUser THEN Fail(r, 404)
    ELSE LET new_habits == SelectSeq(row.custom_habits, LAMBDA h : h.id # r.id)
         IN IF Len(new_habits) = Len(row.custom_habits) THEN Fail(r, 404)
            ELSE Commit(r, [row EXCEPT !.custom_habits = new_habits],
                        completed_rows, history, purchases, 0, 0)

\* The handler of request r run on the row it read under the lock.
Body(r, row) ==
    CASE r.op = "hero" -> get_hero(r, row)
      [] r.op = "water" -> add_water(r, row)
      [] r.op = "sleep_start" -> sleep_start(r, row)
      [] r.op = "sleep_end" -> sleep_end(r, row)
      [] r.op = "task" -> complete_task(r, row)
      [] r.op = "buy" -> shop_buy(r, row)
      [] r.op = "bio" -> update_bio(r, row)
      [] r.op = "habit_add" -> add_habit(r, row)
      [] r.op = "habit_edit" -> edit_habit(r, row)
      [] r.op = "habit_delete" -> delete_habit(r, row)

\* --------------------------------------------------------------- requests

Idle == [pc |-> "idle"]

Request(op, id, n, m, name) ==
    [op |-> op, id |-> id, n |-> n, m |-> m, name |-> name,
     today0 |-> DateOf(now), now0 |-> now,
     \* not read by any handler: the water count when the request arrived
     wc0 |-> IF user = NoUser THEN None ELSE user.water_count]

Amounts == {1, 7}
TaskIds == {"workout_hard", "custom_a", "nope"}
RewardIds == {"coffee", "nope"}
HabitIds == {"custom_a"}

HeroRequests == {Request("hero", "", 0, 0, "")}
WaterRequests == {Request("water", "", n, 0, "") : n \in Amounts}
SleepStartRequests == {Request("sleep_start", "", 0, 0, "")}
SleepEndRequests == {Request("sleep_end", "", 0, 0, "")}
TaskRequests == {Request("task", id, 0, 0, "") : id \in TaskIds}
BuyRequests == {Request("buy", id, 0, 0, "") : id \in RewardIds}
BioRequests == {Request("bio", "", 70, 10, "")}
HabitAddRequests == {Request("habit_add", id, 100, 0, "a") : id \in HabitIds}
HabitEditRequests == {Request("habit_edit", id, 20, 0, "b") : id \in HabitIds}
HabitDeleteRequests == {Request("habit_delete", id, 0, 0, "") : id \in HabitIds}

Apply(out) ==
    /\ user' = out.user
    /\ completed_rows' = out.rows
    /\ history' = out.hist
    /\ purchases' = out.purch
    /\ resp' = out.resp
    /\ ndone' = ndone + 1

\* A whole request served by one worker with no other request in flight.
Serve(R) ==
    \E r \in R :
        /\ nreq < MaxReq
        /\ \A w \in Workers : req[w] = Idle
        /\ nreq' = nreq + 1
        /\ Apply(Body(r, user))
        /\ UNCHANGED <<now, req, lock>>

GetHero == Serve(HeroRequests)
AddWater == Serve(WaterRequests)
SleepStart == Serve(SleepStartRequests)
SleepEnd == Serve(SleepEndRequests)
CompleteTask == Serve(TaskRequests)
ShopBuy == Serve(BuyRequests)
UpdateBio == Serve(BioRequests)
AddHabit == Serve(HabitAddRequests)
EditHabit == Serve(HabitEditRequests)
DeleteHabit == Serve(HabitDeleteRequests)

Days == (0..MaxDay) \cup {LongGap}

AdvanceTo(T) ==
    \E t \in T :
        /\ t > now
        /\ now' = t
        /\ UNCHANGED <<db, req, lock, resp, nreq, ndone>>

Instants == {d * 24 * 60 + 22 * 60 : d \in Days}

Tick == AdvanceTo(Instants)

\* ------------------------------------------------- sleep sessions, fine clock

DayTimes == {20, 3 * 60, 4 * 60, 12 * 60, 22 * 60, 22 * 60 + 20, 22 * 60 + 25}

FineInstants == {d * 24 * 60 + m : d \in 0..MaxDay, m \in DayTimes}

TickFine == AdvanceTo(FineInstants)

\* ------------------------------------------------------ concurrent workers

ConcRequests ==
    HeroRequests \cup WaterRequests \cup {Request("task", "workout_hard", 0, 0, "")}
        \cup SleepStartRequests \cup SleepEndRequests

ConcInstants == {d * 24 * 60 + 22 * 60 : d \in 0..MaxConcDay}

TickConc == AdvanceTo(ConcInstants)

\* A worker receives a request and reads the clock values its handler reads
\* before it queries the row.
Start(w) ==
    \E r \in ConcRequests :
        /\ nreq < MaxReq
        /\ req[w] = Idle
        /\ req' = [req EXCEPT ![w] = [pc |-> "started", r |-> r, row |-> NoUser]]
        /\ nreq' = nreq + 1
        /\ UNCHANGED <<now, db, lock, resp, ndone>>

\* Mutant: the query does not wait for the lock.
RowFree_always(w) == TRUE

\* SELECT ... FOR UPDATE waits while another transaction holds the row.
RowFree(w) == lock = 0

\* The query returns the row and locks it; no row, no lock.
Acquire(w) ==
    /\ req[w].pc = "started"
    /\ user # NoUser => RowFree(w)
    /\ lock' = IF user = NoUser THEN lock ELSE w
    /\ req' = [req EXCEPT ![w] = [@ EXCEPT !.pc = "locked", !.row = user]]
    /\ UNCHANGED <<now, db, resp, nreq, ndone>>

\* The rest of the handler up to commit or rollback, which releases the lock.
Finish(w) ==
    /\ req[w].pc = "locked"
    /\ Apply(Body(req[w].r, req[w].row))
    /\ lock' = IF lock = w THEN 0 ELSE lock
    /\ req' = [req EXCEPT ![w] = Idle]
    /\ UNCHANGED <<now, nreq>>

Init ==
    /\ now = 22 * 60
    /\ user = NoUser
    /\ completed_rows = {}
    /\ history = <<>>
    /\ purchases = <<>>
    /\ req = [w \in Workers |-> Idle]
    /\ lock = 0
    /\ resp = [op |-> "none", id |-> "", n |-> 0, today0 |-> 0, wc0 |-> None, status |-> 0,
               xp_gained |-> 0, hp_gained |-> 0]
    /\ nreq = 0
    /\ ndone = 0

Next ==
    \/ GetHero
    \/ AddWater
    \/ SleepStart
    \/ SleepEnd
    \/ CompleteTask
    \/ ShopBuy
    \/ UpdateBio
    \/ AddHabit
    \/ EditHabit
    \/ DeleteHabit
    \/ Tick

Spec == Init /\ [][Next]_vars

NextSleep == GetHero \/ SleepStart \/ SleepEnd \/ TickFine

SpecSleep == Init /\ [][NextSleep]_vars

NextConc == TickConc \/ \E w \in Workers : Start(w) \/ Acquire(w) \/ Finish(w)

SpecConc == Init /\ [][NextConc]_vars

\* ------------------------------------------------------------------ claims

Served == ndone' = ndone + 1

\* The row as the rollover leaves it when it runs now.
Rolled(u) == process_daily_updates(u, DateOf(now), now).user

LastHistory == history[Len(history)]

\* C1: in every reachable state the profile's hp satisfies 0 <= hp <= 100.
C1_HpInRange == user # NoUser => (0 <= user.hp /\ user.hp <= MaxHp)

\* A penalty larger than the hp it was taken from left hp at 0.
C1_Witness ==
    /\ user # NoUser
    /\ user.hp = 0
    /\ \E i \in 1..Len(history) :
           history[i].event_type = "penalty" /\ history[i].hp_delta < 0 - MaxHp

C3_TaskXpOncePerDay ==
    /\ [](\A c1, c2 \in completed_rows :
              (c1.task_id = c2.task_id /\ c1.completed_date = c2.completed_date)
                  => c1 = c2)
    /\ [][(Served /\ resp'.op = "task"
              /\ AlreadyCompleted(completed_rows, resp'.id, resp'.today0))
          => (/\ resp'.status # 200
              /\ resp'.xp_gained = 0
              /\ UNCHANGED db)]_vars
    /\ [][(Served /\ resp'.op = "task" /\ resp'.status = 200)
          => (/\ user'.xp = user.xp + resp'.xp_gained
              /\ user'.current_month_xp
                     = Rolled(user).current_month_xp + resp'.xp_gained
              /\ completed_rows' = completed_rows
                     \cup {[task_id |-> resp'.id, completed_date |-> resp'.today0,
                            xp_gained |-> resp'.xp_gained]}
              /\ ~AlreadyCompleted(completed_rows, resp'.id, resp'.today0))]_vars

\* A second request for a task completed today was refused after the first
\* was awarded.
C3_Witness ==
    /\ resp.op = "task"
    /\ resp.status = 409
    /\ \E c \in completed_rows :
           /\ c.task_id = resp.id
           /\ c.completed_date = resp.today0
           /\ c.xp_gained > 0
           /\ user.xp = c.xp_gained

\* C4 (as claimed): a drinkWater request made when waterCount >= waterGoal
\* changes neither waterCount nor xp nor the month's xp, and a drinkWater
\* that starts at or below the goal does not end above it.
C4_GoalMetWaterIsNoOp ==
    /\ [][(Served /\ resp'.op = "water" /\ user # NoUser
              /\ Rolled(user).water_count >= Rolled(user).water_goal)
          => (/\ user'.water_count = Rolled(user).water_count
              /\ user'.xp = user.xp
              /\ user'.current_month_xp = Rolled(user).current_month_xp)]_vars
    /\ [][(Served /\ resp'.op = "water" /\ user # NoUser
              /\ Rolled(user).water_count <= Rolled(user).water_goal)
          => user'.water_count <= user'.water_goal]_vars

\* C4 (amended): every drinkWater request of an existing user succeeds,
\* whatever the goal: it adds its amount to the water count left by the
\* rollover and awards 5 XP per glass, halved below 30 hp.
C4_WaterAlwaysCounts ==
    [][(Served /\ resp'.op = "water" /\ user # NoUser)
       => LET u == Rolled(user)
              nominal == resp'.n * WaterXp
              actual == IF u.hp < LowHp THEN nominal \div 2 ELSE nominal
          IN /\ resp'.status = 200
             /\ user'.water_count = u.water_count + resp'.n
             /\ user'.xp = u.xp + actual
             /\ user'.current_month_xp = u.current_month_xp + actual
             /\ resp'.xp_gained = actual]_vars

\* A glass drunk with the goal already met was counted and awarded.
C4_Witness ==
    /\ resp.op = "water"
    /\ resp.status = 200
    /\ user.water_count - resp.n >= user.water_goal
    /\ user.water_count > user.water_goal
    /\ resp.xp_gained > 0

FinishStep(w) == req[w].pc = "locked" /\ req'[w] = Idle

\* No lost update: a worker that commits a row holds the lock, and the row it
\* read under the lock is still the committed row; at most one worker is
\* between its locking read and its commit.
NoLostUpdate ==
    /\ [](Cardinality({w \in Workers : req[w].pc = "locked" /\ req[w].row # NoUser})
              <= 1)
    /\ [][\A w \in Workers :
              (FinishStep(w) /\ req[w].row # NoUser)
                  => (lock = w /\ req[w].row = user)]_vars

\* C5 (as claimed): requests serialize on the row, and a drinkWater call of
\* one glass that arrived at waterCount = waterGoal - 1 and finds the goal reached by a
\* concurrent call when it gets the row does not increment.
C5_ConcurrentWaterStopsAtGoal ==
    /\ NoLostUpdate
    /\ [][\A w \in Workers :
              (/\ FinishStep(w)
               /\ req[w].r.op = "water"
               /\ req[w].r.n = 1
               /\ req[w].row # NoUser
               /\ req[w].r.wc0 = user.water_goal - 1
               /\ Rolled(user).water_count >= user.water_goal)
                  => user'.water_count <= user'.water_goal]_vars

\* C5 (amended): requests of an existing user serialize on the row (no lost
\* update), and every committed drinkWater adds its amount to the committed
\* count: two concurrent calls both increment, one after the other.
C5_SerializedWaterBothCount ==
    /\ NoLostUpdate
    /\ [][\A w \in Workers :
              (FinishStep(w) /\ req[w].r.op = "water" /\ req[w].row # NoUser)
                  => user'.water_count = Rolled(user).water_count + req[w].r.n]_vars

\* A call that arrived at goal - 1 committed after a concurrent call had
\* reached the goal, and the count passed the goal.
C5_Witness ==
    /\ resp.op = "water"
    /\ resp.status = 200
    /\ resp.n = 1
    /\ user # NoUser
    /\ resp.wc0 = user.water_goal - 1
    /\ user.water_count = user.water_goal + 1

\* C6: a buyReward whose cost exceeds the month's xp is refused and leaves
\* the profile, the history and the purchases as they were.
C6_InsufficientFundsNoEffect ==
    [][(/\ Served
        /\ resp'.op = "buy"
        /\ resp'.id \in DOMAIN REWARDS
        /\ user # NoUser
        /\ REWARDS[resp'.id] > user.current_month_xp)
       => (resp'.status = 400 /\ UNCHANGED db)]_vars

\* A purchase was refused with a positive balance below the cost.
C6_Witness ==
    /\ resp.op = "buy"
    /\ resp.status = 400
    /\ user # NoUser
    /\ user.current_month_xp > 0
    /\ user.current_month_xp < REWARDS[resp.id]

\* C7: a profile is never removed and its xp never decreases; a successful
\* buyReward takes exactly the cost from the month's xp and leaves xp, level,
\* hp, the water count and the streak unchanged.
C7_TotalXpNeverDebited ==
    /\ [][user # NoUser => (user' # NoUser /\ user'.xp >= user.xp)]_vars
    /\ [][(Served /\ resp'.op = "buy" /\ resp'.status = 200)
          => (/\ user'.current_month_xp = user.current_month_xp - REWARDS[resp'.id]
              /\ user'.xp = user.xp
              /\ user'.level = user.level
              /\ user'.hp = user.hp
              /\ user'.water_count = user.water_count
              /\ user'.streak = user.streak)]_vars

\* A reward was bought and the lifetime xp still holds what was earned.
C7_Witness ==
    /\ resp.op = "buy"
    /\ resp.status = 200
    /\ Len(purchases) > 0
    /\ user.xp >= REWARDS[resp.id]
    /\ user.current_month_xp = user.xp - REWARDS[resp.id]

\* C8: the rollover run a second time on the same day changes nothing: the
\* row equals the row after the first run and no history row is added.
C8_RolloverIdempotent ==
    user # NoUser =>
        LET first == process_daily_updates(user, DateOf(now), now)
            second == process_daily_updates(first.user, DateOf(now), now)
        IN second.user = first.user /\ second.hist = <<>>

\* A profile on which the first run resets the month, resets the day and
\* takes a penalty.
C8_Witness ==
    /\ user # NoUser
    /\ user.last_seen_date # None
    /\ DateOf(now) - user.last_seen_date >= 2
    /\ MonthOf(DateOf(now)) # MonthOf(user.last_month_reset)
    /\ user.water_count > 0
    /\ user.current_month_xp > 0
    /\ process_daily_updates(user, DateOf(now), now).hist # <<>>

\* C9: sleep start succeeds exactly when no session is open and opens one at
\* the current time; refused, it leaves the row as it was; sleep end succeeds
\* exactly when a session is open and closes it; nothing else changes
\* sleep_start.
C9_SleepTwoStates ==
    /\ [][(Served /\ resp'.op = "sleep_start" /\ user # NoUser)
          => IF user.sleep_start = None
             THEN resp'.status = 200 /\ user'.sleep_start = now
             ELSE resp'.status = 400 /\ UNCHANGED db]_vars
    /\ [][(Served /\ resp'.op = "sleep_end" /\ user # NoUser)
          => IF user.sleep_start # None
             THEN resp'.status = 200 /\ user'.sleep_start = None
             ELSE resp'.status = 400 /\ UNCHANGED db]_vars
    /\ [][(user # NoUser /\ user'.sleep_start # user.sleep_start)
          => (/\ Served
              /\ resp'.status = 200
              /\ resp'.op = IF user.sleep_start = None
                            THEN "sleep_start" ELSE "sleep_end")]_vars

\* A start was refused during an open session, whose start time was kept.
C9_Witness ==
    /\ resp.op = "sleep_start"
    /\ resp.status = 400
    /\ user # NoUser
    /\ user.sleep_start # None
    /\ user.sleep_start < now

\* C10: ending a session shorter than 0.5 h (30 minutes) awards no xp and no
\* hp, leaves xp, the month's xp and hp unchanged and closes the session.
C10_ShortSleepNoReward ==
    [][(/\ Served
        /\ resp'.op = "sleep_end"
        /\ user # NoUser
        /\ user.sleep_start # None
        /\ now - user.sleep_start < 30)
       => (/\ resp'.status = 200
           /\ resp'.xp_gained = 0
           /\ resp'.hp_gained = 0
           /\ user'.xp = user.xp
           /\ user'.current_month_xp = user.current_month_xp
           /\ user'.hp = user.hp
           /\ user'.sleep_start = None)]_vars

\* A session of 20 minutes begun at 22:00, in the bedtime and phase windows,
\* was ended without reward.
C10_Witness ==
    /\ resp.op = "sleep_end"
    /\ resp.status = 200
    /\ resp.xp_gained = 0
    /\ Len(history) > 0
    /\ LastHistory.event_type = "sleep"
    /\ LastHistory.info = 20
    /\ HourOf(LastHistory.timestamp - 20) = 22
    /\ user.sleep_start = None

\* The nominal XP of the water or task request just served, before the
\* award rule.
NominalXp(u) ==
    IF resp'.op = "water" THEN resp'.n * 5 ELSE TaskXp(u, resp'.id)

\* C11: an award of nominal n adds floor(n / 2) when the hp of the row, read
\* before the action's own heal, is below 30 and n otherwise; the same amount
\* goes to xp and to the month's xp, is returned and is recorded in history.
C11_AwardRule ==
    [][(Served /\ resp'.status = 200 /\ resp'.op \in {"water", "task"})
       => LET u == Rolled(user)
              n == NominalXp(u)
              actual == IF u.hp < 30 THEN n \div 2 ELSE n
          IN /\ resp'.xp_gained = actual
             /\ user'.xp = u.xp + actual
             /\ user'.current_month_xp = u.current_month_xp + actual
             /\ history'[Len(history')].xp_delta = actual]_vars

\* A task worth 50 was awarded 25 to a profile with hp below 30.
C11_Witness ==
    /\ resp.op = "task"
    /\ resp.status = 200
    /\ resp.id = "workout_hard"
    /\ resp.xp_gained = 25
    /\ user.hp < 30
    /\ user.xp = 25
    /\ LastHistory.xp_delta = 25

DaysMissed == DateOf(now) - user.last_seen_date

\* A request that ran process_daily_updates on an existing profile and
\* committed.
RolledOver ==
    /\ Served
    /\ resp'.status = 200
    /\ resp'.op \in {"hero", "water", "task"}
    /\ user # NoUser

\* The hp the request's own heal adds after the rollover.
OwnHeal == IF resp'.op = "water" THEN resp'.n * 5 ELSE 0

\* The history rows the request itself appends after the rollover's.
OwnRows == IF resp'.op = "hero" THEN 0 ELSE 1

\* C13 (as written): a rollover on a later date, one day later included,
\* lowers hp by min(daysMissed * 15, hp) and appends exactly one entry with
\* XP 0 that records the missed days and that loss; xp is not changed by it.
C13_PenaltyForAnyGap ==
    [][(RolledOver /\ DaysMissed > 0)
       => LET loss == Min(DaysMissed * 15, user.hp)
              row == history'[Len(history) + 1]
          IN /\ user'.hp = Min(100, user.hp - loss + OwnHeal)
             /\ Len(history') = Len(history) + 1 + OwnRows
             /\ row.xp_delta = 0
             /\ row.info = DaysMissed
             /\ row.hp_delta = 0 - loss]_vars

\* C13 (amended): a rollover two or more days after the last one lowers hp
\* by min(daysMissed * 15, hp) and appends exactly one penalty entry with XP 0,
\* the days missed and an hp change of -(daysMissed * 15), not capped at the
\* hp that was left; a rollover one day after the last one takes no hp and
\* appends nothing. The penalty changes neither xp nor the month's xp.
C13_PenaltyFromTwoDays ==
    [][(RolledOver /\ DaysMissed > 0)
       => LET loss == IF DaysMissed = 1 THEN 0 ELSE Min(DaysMissed * 15, user.hp)
              row == history'[Len(history) + 1]
          IN /\ user'.hp = Min(100, user.hp - loss + OwnHeal)
             /\ user'.xp = user.xp + resp'.xp_gained
             /\ user'.current_month_xp
                    = MonthlyReset(user, DateOf(now)).current_month_xp + resp'.xp_gained
             /\ IF DaysMissed = 1
                THEN Len(history') = Len(history) + OwnRows
                ELSE /\ Len(history') = Len(history) + 1 + OwnRows
                     /\ row.event_type = "penalty"
                     /\ row.xp_delta = 0
                     /\ row.info = DaysMissed
                     /\ row.hp_delta = 0 - (DaysMissed * 15)]_vars

\* A visit 8 days after the last one took the 100 hp that were left and
\* recorded a penalty of 120.
C13_Witness ==
    /\ resp.op = "hero"
    /\ resp.status = 200
    /\ user.hp = 0
    /\ user.xp = 0
    /\ Len(history) = 1
    /\ LastHistory.event_type = "penalty"
    /\ LastHistory.info = 8
    /\ LastHistory.hp_delta = 0 - 120

\* C14 (as written): the streak grows only on a day whose water goal was
\* met, and is 0 after a rollover that follows more than one missed day.
C14_StreakCountsGoalDays ==
    [][user # NoUser
       => /\ (user'.streak > user.streak => user'.water_count >= user'.water_goal)
          /\ ((RolledOver /\ DaysMissed > 1) => user'.streak = 0)]_vars

\* C14 (amended): the streak counts consecutive calendar days on which a
\* request rolled the profile over (getProfile, drinkWater, completeTask):
\* it is 1 after the rollover that follows creation, grows by exactly 1 at a
\* rollover on the day after the last one, is 1 after a rollover that
\* follows a longer gap, and no other step changes it; the water count and
\* the water goal play no part.
C14_StreakCountsVisitDays ==
    [][IF user = NoUser
       THEN user' # NoUser => user'.streak = 1
       ELSE user'.streak = (IF ~RolledOver \/ DaysMissed = 0 THEN user.streak
                            ELSE IF DaysMissed = 1 THEN user.streak + 1
                            ELSE 1)]_vars

\* Three visits on three days in a row without a glass of water: streak 3.
C14_Witness ==
    /\ resp.op = "hero"
    /\ resp.status = 200
    /\ user.streak = 3
    /\ user.water_count = 0
    /\ history = <<>>

\* The glasses the history records for one day, the tasks it records for one
\* day, and the XP it records for one month (purchases are negative).
RECURSIVE WaterOn(_, _)
WaterOn(h, day) ==
    IF h = <<>> THEN 0
    ELSE (IF Head(h).event_type = "water" /\ DateOf(Head(h).timestamp) = day
          THEN Head(h).info ELSE 0) + WaterOn(Tail(h), day)

TasksOn(h, day) ==
    {h[i].ref : i \in {j \in DOMAIN h : /\ h[j].event_type = "task"
                                        /\ DateOf(h[j].timestamp) = day}}

RECURSIVE MonthXpOn(_, _)
MonthXpOn(h, month) ==
    IF h = <<>> THEN 0
    ELSE (IF MonthOf(DateOf(Head(h).timestamp)) = month
          THEN Head(h).xp_delta ELSE 0) + MonthXpOn(Tail(h), month)

\* The profile holds the water and the tasks of today and the XP of this
\* month: the daily and the monthly reset have run since the boundary, and
\* have not run again on what was drunk, completed or earned after it.
ResetOnce(u, h, today) ==
    /\ u.water_count = WaterOn(h, today)
    /\ {u.completed_tasks[i] : i \in DOMAIN u.completed_tasks} = TasksOn(h, today)
    /\ u.current_month_xp = MonthXpOn(h, MonthOf(today))

\* C15: the water count and the completed tasks are reset exactly once for
\* each new day on which the profile is touched, and the month's xp exactly
\* once for each new month, on the first request after the boundary and never
\* again in the same day or month: after every successful request the profile
\* holds exactly what the day and the month have brought so far.
C15_ResetOncePerDayAndMonth ==
    [][(/\ Served
        /\ resp'.status = 200
        /\ resp'.op \in {"hero", "water", "task", "sleep_end", "buy"})
       => ResetOnce(user', history', DateOf(now))]_vars

\* The same holds as long as no sleep was ended and nothing was bought: these
\* two requests change the month's xp without process_daily_updates.
C15_ResetOnceWithoutSleepOrShop ==
    [][(/\ Served
        /\ resp'.status = 200
        /\ resp'.op \in {"hero", "water", "task"}
        /\ \A i \in DOMAIN history' : history'[i].event_type \notin {"sleep", "shop"})
       => ResetOnce(user', history', DateOf(now))]_vars

\* The minutes slept by the sleep/end being served and the UTC hour the
\* sleep started at.
SleptMinutes == now - user.sleep_start

StartHour == HourOf(user.sleep_start)

\* The rewards of a sleep as the claim lists them.
TierXp == IF SleptMinutes < 180 THEN 10
          ELSE IF SleptMinutes < 300 THEN 15
          ELSE IF SleptMinutes < 450 THEN 30 ELSE 50

TierHp == IF SleptMinutes < 180 THEN 5
          ELSE IF SleptMinutes < 300 THEN 10
          ELSE IF SleptMinutes < 450 THEN 15 ELSE 20

BedtimeBonus == IF StartHour \in 21..23 THEN 30
                ELSE IF StartHour \in 0..1 THEN 10
                ELSE IF StartHour \in 2..5 THEN 0 - 10 ELSE 0

InWakePhase == SleptMinutes % 90 < 21 \/ SleptMinutes % 90 > 69

\* A sleep/end that is served for a sleep of half an hour or more.
SleepRewarded ==
    /\ Served
    /\ resp'.op = "sleep_end"
    /\ resp'.status = 200
    /\ SleptMinutes >= 30

\* C16 (as written): a sleep of 0.5 h or more awards the tier, the bedtime
\* bonus and, in the wake phase, 20 XP and 5 HP.
C16_PhaseBonusXpAndHp ==
    [][SleepRewarded
       => LET xp == TierXp + BedtimeBonus + (IF InWakePhase THEN 20 ELSE 0)
              hp == TierHp + (IF InWakePhase THEN 5 ELSE 0)
          IN /\ resp'.xp_gained = (IF user.hp < 30 THEN xp \div 2 ELSE xp)
             /\ resp'.hp_gained = hp
             /\ user'.hp = Min(100, user.hp + hp)]_vars

\* C16 (amended): a sleep of 0.5 h or more awards the tier, the bedtime
\* bonus by the UTC hour of the start and, in the wake phase, 20 XP and no
\* HP: the HP is the tier's alone, capped at 100.
C16_PhaseBonusXpOnly ==
    [][SleepRewarded
       => LET xp == TierXp + BedtimeBonus + (IF InWakePhase THEN 20 ELSE 0)
          IN /\ resp'.xp_gained = (IF user.hp < 30 THEN xp \div 2 ELSE xp)
             /\ user'.xp = user.xp + resp'.xp_gained
             /\ resp'.hp_gained = TierHp
             /\ user'.hp = Min(100, user.hp + TierHp)
             /\ history'[Len(history')].hp_delta = TierHp]_vars

\* A sleep from 22:00 to 04:00 at hp 70: 80 XP and 15 HP.
C16_Witness ==
    /\ resp.op = "sleep_end"
    /\ resp.status = 200
    /\ LastHistory.event_type = "sleep"
    /\ LastHistory.info = 6 * 60
    /\ HourOf(LastHistory.timestamp - 6 * 60) = 22
    /\ resp.xp_gained = 80
    /\ resp.hp_gained = 15
    /\ user.hp = 85

\* C17: a completeTask with a task id that is neither in the catalog nor in
\* the custom habits of the profile, and a buyReward with an unknown reward
\* id, are answered with not-found and change nothing: the profile with the
\* fields of a rollover that was due, the history, the completion rows and
\* the purchases stay as they were.
C17_UnknownIdNoEffect ==
    [][(/\ Served
        /\ \/ /\ resp'.op = "task"
              /\ user # NoUser
              /\ resp'.id \notin DOMAIN TASKS
              /\ \A i \in DOMAIN user.custom_habits : user.custom_habits[i].id # resp'.id
           \/ /\ resp'.op = "buy"
              /\ resp'.id \notin DOMAIN REWARDS)
       => (resp'.status = 404 /\ UNCHANGED db)]_vars

\* An unknown task was refused on a day whose rollover, with a penalty, was
\* still due, and the rollover did not stay.
C17_Witness ==
    /\ resp.op = "task"
    /\ resp.id = "nope"
    /\ resp.status = 404
    /\ user # NoUser
    /\ resp.today0 = DateOf(now)
    /\ user.last_seen_date + 2 <= resp.today0
    /\ user.hp = 100
    /\ history = <<>>

\* A completeTask is being served for a task the profile knows and that has
\* a completion row for the day the handler read.
RepeatedCompletion ==
    /\ Served
    /\ resp'.op = "task"
    /\ user # NoUser
    /\ \/ resp'.id \in DOMAIN TASKS
       \/ \E i \in DOMAIN user.custom_habits : user.custom_habits[i].id = resp'.id
    /\ \E c \in completed_rows :
           c.task_id = resp'.id /\ c.completed_date = resp'.today0

\* C18 (as written): a completeTask for a task already completed today is
\* not an error: it succeeds and leaves the state unchanged.
C18_RepeatSucceeds ==
    [][RepeatedCompletion => (resp'.status = 200 /\ UNCHANGED db)]_vars

\* C18 (amended): a completeTask for a task already completed today is
\* refused with the conflict error 409 and leaves the state unchanged.
C18_RepeatIsConflict ==
    [][RepeatedCompletion => (resp'.status = 409 /\ UNCHANGED db)]_vars

\* The second completeTask of workout_hard on one day was answered 409; the
\* profile and the history hold the first completion only.
C18_Witness ==
    /\ resp.op = "task"
    /\ resp.id = "workout_hard"
    /\ resp.status = 409
    /\ user.completed_tasks = <<"workout_hard">>
    /\ user.xp = 50
    /\ Len(history) = 1
    /\ LastHistory.event_type = "task"

\* The profile holds the defaults of a profile that has just been created
\* and rolled over today.
FreshProfile(u) ==
    /\ u # NoUser
    /\ u.hp = 100 /\ u.xp = 0 /\ u.level = 1 /\ u.current_month_xp = 0
    /\ u.water_count = 0 /\ u.water_goal = 8
    /\ u.completed_tasks = <<>> /\ u.custom_habits = <<>>
    /\ u.sleep_start = None
    /\ u.last_seen_date = DateOf(now)

\* C19 (as written): the first request of any kind creates the profile with
\* its defaults and is served, and a profile is never deleted.
C19_AnyFirstRequestCreates ==
    /\ [][(/\ Served
           /\ user = NoUser
           /\ \/ resp'.op \in {"hero", "water", "sleep_start"}
              \/ resp'.op = "task" /\ resp'.id \in DOMAIN TASKS)
          => (resp'.status = 200 /\ user' # NoUser)]_vars
    /\ [][user # NoUser => user' # NoUser]_vars

\* C19 (amended): the first getProfile creates the profile with its
\* defaults; every other request for a user without a profile is answered
\* 404 and creates nothing; a profile is never deleted.
C19_OnlyGetProfileCreates ==
    /\ [][(Served /\ user = NoUser)
          => IF resp'.op = "hero"
             THEN resp'.status = 200 /\ FreshProfile(user') /\ history' = <<>>
             ELSE resp'.status = 404 /\ UNCHANGED db]_vars
    /\ [][user # NoUser => user' # NoUser]_vars

\* A drinkWater sent before any getProfile was answered 404 and there is
\* still no profile.
C19_Witness ==
    /\ resp.op = "water"
    /\ resp.status = 404
    /\ user = NoUser
    /\ history = <<>>
    /\ ndone >= 1

\* The history only grows at its end: no entry is changed or removed.
C20_AppendOnly ==
    [][/\ Len(history') >= Len(history)
       /\ \A i \in DOMAIN history : history'[i] = history[i]]_vars

\* C20: history entries are never changed or removed, and their order by
\* timestamp is the order in which they were committed, also when requests
\* overlap: a request that read the clock before it waited for the row lock
\* records no timestamp earlier than an entry committed while it waited.
C20_TimestampOrderIsCommitOrder ==
    /\ [](\A i, j \in DOMAIN history :
              i < j => history[i].timestamp <= history[j].timestamp)
    /\ C20_AppendOnly

\* Durations on both sides of every threshold of sleep_end, in minutes.
SleepDurations ==
    {0, 25, 30, 60, 175, 180, 295, 300, 445, 450, 540, 600, 24 * 60, 2 * 24 * 60}

\* C21: the XP sum of a sleep end is never negative for any duration and any
\* bedtime hour, so the branch that takes a negative sum from the month's xp
\* is never taken; the sum is awarded through the award rule and ending a
\* sleep lowers neither xp nor the month's xp.
C21_SleepXpNeverNegative ==
    [][(Served /\ resp'.op = "sleep_end" /\ resp'.status = 200)
       => LET sum == SleepXp(SleptMinutes, StartHour)
          IN /\ sum >= 0
             /\ \A d \in SleepDurations, h \in 0..23 : SleepXp(d, h) >= 0
             /\ resp'.xp_gained = (IF user.hp < 30 THEN sum \div 2 ELSE sum)
             /\ user'.xp = user.xp + resp'.xp_gained
             /\ user'.current_month_xp = user.current_month_xp + resp'.xp_gained
             /\ user'.xp >= user.xp
             /\ user'.current_month_xp >= user.current_month_xp]_vars

\* A sleep from 03:00 to 04:00: tier 10, bedtime -10, no phase bonus; the
\* sum is 0 and no XP moved.
C21_Witness ==
    /\ resp.op = "sleep_end"
    /\ resp.status = 200
    /\ LastHistory.event_type = "sleep"
    /\ LastHistory.info = 60
    /\ HourOf(LastHistory.timestamp - 60) = 3
    /\ resp.xp_gained = 0
    /\ resp.hp_gained = 5
    /\ user.xp = 0
    /\ user.current_month_xp = 0

\* The penalty rows the step appends to the history.
PenaltiesAdded ==
    Cardinality({i \in DOMAIN history' :
                     i > Len(history) /\ history'[i].event_type = "penalty"})

\* A request that ends in an error leaves the profile, the completion rows,
\* the history and the purchases as they were, a flushed rollover included.
ErrorPersistsNothing ==
    [][(Served /\ resp'.status # 200) => UNCHANGED db]_vars

\* C22: a request that ends in an error persists nothing, the flushed
\* rollover included, so the penalty for a gap of missed days is applied
\* exactly once, by the first request that succeeds after the gap: that
\* request appends the one penalty row and records the day, and a request
\* with no such gap behind it appends none.
C22_PenaltyOnceByFirstSuccess ==
    /\ ErrorPersistsNothing
    /\ [][(/\ Served
           /\ resp'.status = 200
           /\ resp'.op \in {"hero", "water", "task", "sleep_end", "buy"}
           /\ user # NoUser)
          => IF DaysMissed >= 2
             THEN /\ PenaltiesAdded = 1
                  /\ history'[Len(history) + 1].info = DaysMissed
                  /\ user'.last_seen_date = DateOf(now)
             ELSE PenaltiesAdded = 0]_vars

\* The same for the requests that call process_daily_updates: an error rolls
\* the penalty back and the next of them that succeeds applies it once.
C22_PenaltyOnceWhereRolled ==
    /\ ErrorPersistsNothing
    /\ [][(RolledOver)
          => IF DaysMissed >= 2
             THEN /\ PenaltiesAdded = 1
                  /\ history'[Len(history) + 1].info = DaysMissed
                  /\ user'.last_seen_date = DateOf(now)
             ELSE PenaltiesAdded = 0]_vars

\* The XP the history records in its water, task and sleep rows.
RECURSIVE EarnedXp(_)
EarnedXp(h) ==
    IF h = <<>> THEN 0
    ELSE (IF Head(h).event_type \in {"water", "task", "sleep"}
          THEN Head(h).xp_delta ELSE 0) + EarnedXp(Tail(h))

\* The XP of the rows of h after the first `from` ones, shop costs included.
RECURSIVE XpSince(_, _)
XpSince(h, from) ==
    IF Len(h) <= from THEN 0
    ELSE h[Len(h)].xp_delta + XpSince(SubSeq(h, 1, Len(h) - 1), from)

\* The step creates the profile or runs the monthly reset.
MonthlyResetStep ==
    /\ user' # NoUser
    /\ \/ user = NoUser
       \/ user'.last_month_reset # user.last_month_reset

\* C23: in every reachable state xp is the sum of xp_delta over the water,
\* task and sleep rows of the history, and the month's xp is the sum of
\* xp_delta over all rows written since the last monthly reset: a step that
\* resets the month leaves the sum of the rows it appends itself, any other
\* step adds the sum of the rows it appends.
C23_LedgerConsistent ==
    /\ [](user # NoUser => user.xp = EarnedXp(history))
    /\ [](user = NoUser => history = <<>>)
    /\ [][user' # NoUser
          => user'.current_month_xp
                 = (IF MonthlyResetStep THEN 0 ELSE user.current_month_xp)
                   + XpSince(history', Len(history))]_vars

\* After a task worth 50 and a coffee for 50 the ledger holds two rows:
\* xp 50, the month's xp 0.
C23_Witness ==
    /\ resp.op = "buy"
    /\ resp.status = 200
    /\ user.xp = 50
    /\ user.current_month_xp = 0
    /\ Len(history) = 2
    /\ history[1].xp_delta = 50
    /\ history[2].xp_delta = 0 - 50

\* C24: in every reachable state 0 <= the month's xp <= xp, and the stored
\* level is xp_to_level(xp).
C24_MonthXpWithinTotalAndLevel ==
    user # NoUser
        => /\ 0 <= user.current_month_xp
           /\ user.current_month_xp <= user.xp
           /\ user.level = xp_to_level(user.xp)

\* A habit worth 100 XP was completed and a coffee bought: level 2, xp 100,
\* the month's xp 50.
C24_Witness ==
    /\ resp.op = "buy"
    /\ resp.status = 200
    /\ user.xp = 100
    /\ user.level = 2
    /\ user.current_month_xp = 50

\* The task ids with a completion row for the day the profile was last
\* rolled over on.
RowsOfLastSeenDay ==
    {c.task_id : c \in {x \in completed_rows : x.completed_date = user.last_seen_date}}

\* C25: the completed_tasks list of the profile holds, each at most once,
\* exactly the task ids that have a completion row dated the profile's
\* last_seen_date, also when the day changes between the handler's reading
\* of today's date and the rollover's.
C25_ListAgreesWithRows ==
    user # NoUser
        => /\ {user.completed_tasks[i] : i \in DOMAIN user.completed_tasks}
                  = RowsOfLastSeenDay
           /\ \A i, j \in DOMAIN user.completed_tasks :
                  user.completed_tasks[i] = user.completed_tasks[j] => i = j

====
